---- MODULE Spec2Model ----
(***************************************************************************)
(* Model of the ab-masonry gallery widget (bedoya/ab-masonry).             *)
(*                                                                         *)
(* The gallery build pipeline: ABMasonry.create -> constructor ->          *)
(* build -> distributeItems -> ABMasonryElement.create -> loadImage ->     *)
(* getShortestColumn -> ABMasonryColumn.appendElement, and render.         *)
(*                                                                         *)
(* One action is one task of the JavaScript event loop: the synchronous    *)
(* code of the handler together with the promise continuations             *)
(* (microtasks) it makes runnable, up to the next pending image load.      *)
(*                                                                         *)
(* Sequences are 1-based: column 1 here is columns[0] in the source.       *)
(***************************************************************************)
EXTENDS Integers, Sequences, FiniteSets, TLC

(***************************************************************************)
(* Bounds of the model.                                                    *)
(***************************************************************************)
MaxItems == 3
MaxCols == 2
MaxRenders == 1
MaxShows == 2
MaxScrollLeft == 200
MaxNatural == 4
MaxWidth == 5

(***************************************************************************)
(* Program constants.                                                      *)
(***************************************************************************)
DefaultColumns == 3
FallbackWidth == 1024
MobileBreakpoint == 768

(***************************************************************************)
(* JavaScript numbers, as far as the pipeline produces them: non-negative  *)
(* rationals n/d, NaN and Infinity.  Heights are results of Math.round,    *)
(* hence integers (d = 1), NaN or Infinity.                                *)
(***************************************************************************)
Rat(n, d) == [k |-> "fin", n |-> n, d |-> d]
Num(n) == Rat(n, 1)
NaN == [k |-> "NaN", n |-> 0, d |-> 1]
Infinity == [k |-> "Infinity", n |-> 0, d |-> 1]

IsNaN(x) == x.k = "NaN"
IsFinite(x) == x.k = "fin"
IsZero(x) == x.k = "fin" /\ x.n = 0

\* x / y
JsDiv(x, y) ==
    IF IsNaN(x) \/ IsNaN(y) THEN NaN
    ELSE IF x.k = "Infinity" THEN (IF y.k = "Infinity" THEN NaN ELSE Infinity)
    ELSE IF y.k = "Infinity" THEN Num(0)
    ELSE IF y.n = 0 THEN (IF x.n = 0 THEN NaN ELSE Infinity)
    ELSE Rat(x.n * y.d, x.d * y.n)

\* x * y
JsMul(x, y) ==
    IF IsNaN(x) \/ IsNaN(y) THEN NaN
    ELSE IF x.k = "Infinity" \/ y.k = "Infinity"
         THEN (IF IsZero(x) \/ IsZero(y) THEN NaN ELSE Infinity)
    ELSE Rat(x.n * y.n, x.d * y.d)

\* x + y
JsAdd(x, y) ==
    IF IsNaN(x) \/ IsNaN(y) THEN NaN
    ELSE IF x.k = "Infinity" \/ y.k = "Infinity" THEN Infinity
    ELSE IF x.d = y.d THEN Rat(x.n + y.n, x.d)
    ELSE Rat(x.n * y.d + y.n * x.d, x.d * y.d)

\* x < y : false whenever an operand is NaN
JsLt(x, y) ==
    IF IsNaN(x) \/ IsNaN(y) THEN FALSE
    ELSE IF x.k = "Infinity" THEN FALSE
    ELSE IF y.k = "Infinity" THEN TRUE
    ELSE x.n * y.d < y.n * x.d

\* x === y : false whenever an operand is NaN
JsEq(x, y) ==
    IF IsNaN(x) \/ IsNaN(y) THEN FALSE
    ELSE IF x.k = "Infinity" \/ y.k = "Infinity" THEN x.k = y.k
    ELSE x.n * y.d = y.n * x.d

\* Math.round: nearest integer, halves towards +Infinity
MathRound(x) ==
    IF IsFinite(x) THEN Num((2 * x.n + x.d) \div (2 * x.d)) ELSE x

(***************************************************************************)
(* Strings that the code inspects are sequences of characters.             *)
(***************************************************************************)
startsWith(s, prefix) ==
    /\ Len(s) >= Len(prefix)
    /\ \A k \in 1..Len(prefix) : s[k] = prefix[k]

UrlRootRelative == <<"/", "a", ".", "j", "p", "g">>
UrlHttps == <<"h", "t", "t", "p", "s", ":", "/", "/", "e", "/", "c">>
UrlInvalid == <<"i", "n", "v", "a", "l", "i", "d", ".", "j", "p", "g">>

\* image sources an item descriptor may carry
ImgSources == {UrlRootRelative, UrlHttps, UrlInvalid}

\* (naturalWidth, naturalHeight) a loaded image may report
NaturalSizes == {<<1, 1>>, <<2, 1>>, <<0, 0>>}

\* container.clientWidth of the resolved container
ClientWidths == {0, 300}

\* the document: selectors that document.querySelector resolves
MatchingSelectors == {"#gallery"}
ElementArg == [kind |-> "HTMLElement", value |-> "#gallery"]
Selectors == {ElementArg,
              [kind |-> "string", value |-> "#gallery"],
              [kind |-> "string", value |-> "#nonexistent"]}

\* an optional field of a descriptor or an optional argument is <<>> when
\* absent and <<v>> when it has the value v
Items == [img : ImgSources, title : {<<>>}, caption : {<<>>}, link : {<<>>}]
ItemLists == UNION {[1..n -> Items] : n \in 0..MaxItems}

\* a value of options.gap: a string (its characters) or, from a caller
\* that is not type-checked, a number
Str(chars) == [type |-> "string", chars |-> chars]
Number(n) == [type |-> "number", n |-> n]
DefaultGap == Str(<<"1", "6", "p", "x">>)
Gap12px == Str(<<"1", "2", "p", "x">>)
GapEmpty == Str(<<>>)
Gap16 == Number(16)

\* options.columns as supplied by the caller: absent (<<>>) or <<n>>
UserOptions == [columns : {<<>>} \cup {<<n>> : n \in 0..MaxCols}]

VARIABLES
    pc,             \* the promise of ABMasonry.create: idle, awaiting, resolved, rejected
    selector,       \* argument of create
    items,          \* argument of create (this.items)
    options,        \* this.options after the merge with the defaults
    clientWidth,    \* container.clientWidth
    columns,        \* this.columns: sequence of [elements, height]
    created,        \* elements returned by ABMasonryElement.create, in order
    imageRequests,  \* item indexes for which an Image was given its src, in order
    inflight,       \* item indexes whose image load is pending
    loaded,         \* item indexes whose img.onload fired
    failed,         \* item indexes whose img.onerror fired
    attempted,      \* item indexes for which ABMasonryElement.create was called
    warnings,       \* console.warn calls of distributeItems: [item, error]
    createError,    \* rejection reason of ABMasonry.create, <<>> if none
    overlayAppended,\* the overlay root was appended to document.body
    mounted,        \* the column containers are children of the container
    renders,        \* number of render() calls, one ABMasonryRenderer each
    overlayVisible, \* the overlay root carries ab-masonry__overlay--visible
    modal,          \* children of the modal figure, in document order
    lastCall,       \* the last of show / hide called on the overlay
    innerWidth,     \* window.innerWidth
    resizeListeners,\* renderers whose onResize listens on window
    closures,       \* attached drag-scroll listener sets, in attach order
    scrollLeft,     \* scrollLeft of each column container
    classList,      \* interaction markers of each column container
    containerChildren, \* the column containers appended to the container, in order
    style,          \* container.style: the value of --ab-gap, <<>> while not set
    pointerOver,    \* the column the pointer went down on and has not left, or 0
    evaluated,      \* the last call of a pure function: its name, arguments, result
    legacy          \* the gallery of the constructor-based ABMasonry

vars == <<pc, selector, items, options, clientWidth, columns, created,
          imageRequests, inflight, loaded, failed, attempted, warnings,
          createError, overlayAppended, mounted, renders,
          overlayVisible, modal, lastCall,
          innerWidth, resizeListeners, closures, scrollLeft, classList,
          containerChildren, style, pointerOver, evaluated, legacy>>

overlayVars == <<overlayVisible, modal, lastCall>>
rendererVars == <<innerWidth, resizeListeners, closures>>
columnDomVars == <<scrollLeft, classList>>

(***************************************************************************)
(* Errors: an Error has a message; the message of the errors raised per    *)
(* item consists of an optional wrapping prefix, a text and the URL the    *)
(* text is followed by (<<>> when the message names no URL).               *)
(***************************************************************************)
NoError == <<>>
Error(prefix, text, arg) == [prefix |-> prefix, text |-> text, arg |-> arg]

ContainerNotFound(sel) == <<"Container \"", sel, "\" not found">>

InvalidItemText == "Invalid ABMasonryItem: \"img\" must be a relative or absolute URL"
LoadFailedText == "Image failed to load: "
CreateFailedPrefix == "Failed to create ABMasonryElement: "
UndefinedColumnText == "Cannot read properties of undefined (reading 'appendElement')"

(***************************************************************************)
(* ABMasonry.resolveContainer: the element itself, the element the         *)
(* selector resolves to, or a throw.                                       *)
(***************************************************************************)
resolveContainer_NoSelector(sel) ==
    IF sel.kind = "HTMLElement" THEN [thrown |-> FALSE, error |-> NoError]
    ELSE IF sel.value \in MatchingSelectors
         THEN [thrown |-> FALSE, error |-> NoError]
         ELSE [thrown |-> TRUE, error |-> <<"Container \"", "", "\" not found">>]

resolveContainer(sel) ==
    IF sel.kind = "HTMLElement" THEN [thrown |-> FALSE, error |-> NoError]
    ELSE IF sel.value \in MatchingSelectors
         THEN [thrown |-> FALSE, error |-> NoError]
         ELSE [thrown |-> TRUE, error |-> ContainerNotFound(sel.value)]

(***************************************************************************)
(* { ...ABMasonryDefaultOptions, ...options }                              *)
(***************************************************************************)
mergeOptions(userOptions) ==
    [columns |-> IF userOptions.columns = <<>> THEN DefaultColumns
                 ELSE userOptions.columns[1],
     gap |-> IF "gap" \in DOMAIN userOptions /\ userOptions.gap # <<>>
             THEN userOptions.gap[1]
             ELSE DefaultGap]

(***************************************************************************)
(* ABMasonry.createColumns: `count` empty columns of height 0.             *)
(***************************************************************************)
createColumns_AtLeastOne(count) ==
    [c \in 1..(IF count < 1 THEN 1 ELSE count) |-> [elements |-> <<>>, height |-> Num(0)]]

createColumns(count) ==
    [c \in 1..count |-> [elements |-> <<>>, height |-> Num(0)]]

(***************************************************************************)
(* ABMasonryColumn.appendElement                                           *)
(***************************************************************************)
appendElement_NoChild(column, element) ==
    [elements |-> column.elements,
     height   |-> JsAdd(column.height, element.height)]

appendElement_NoHeight(column, element) ==
    [elements |-> Append(column.elements, element),
     height   |-> column.height]

appendElement_Prepend(column, element) ==
    [elements |-> <<element>> \o column.elements,
     height   |-> JsAdd(column.height, element.height)]

appendElement(column, element) ==
    [elements |-> Append(column.elements, element),
     height   |-> JsAdd(column.height, element.height)]

(***************************************************************************)
(* ABMasonry.getShortestColumn: the loop over i = 1 .. length - 1 of the   *)
(* source is the loop over i = 2 .. Len(cols) here.  On an empty list of   *)
(* columns the result is the (absent) first column.                        *)
(***************************************************************************)
RECURSIVE shortestLoop(_, _, _)
shortestLoop(cols, i, shortest) ==
    IF i > Len(cols) THEN shortest
    ELSE shortestLoop(cols, i + 1,
                      IF JsLt(cols[i].height, cols[shortest].height)
                      THEN i ELSE shortest)

RECURSIVE shortestLoop_LastMin(_, _, _)
shortestLoop_LastMin(cols, i, shortest) ==
    IF i > Len(cols) THEN shortest
    ELSE shortestLoop_LastMin(cols, i + 1,
                      IF ~JsLt(cols[shortest].height, cols[i].height)
                      THEN i ELSE shortest)

getShortestColumn_LastMin(cols) == shortestLoop_LastMin(cols, 2, 1)

getShortestColumn_First(cols) == 1

getShortestColumn(cols) == shortestLoop(cols, 2, 1)

(***************************************************************************)
(* ABMasonryElement.validateImgUrl: TRUE when the url is returned, FALSE   *)
(* when the function throws.  /^https?:\/\// is a prefix test.             *)
(***************************************************************************)
validateImgUrl_AcceptAll(url) == TRUE

validateImgUrl(url) ==
    ~ ( /\ ~startsWith(url, <<"/">>)
        /\ ~ ( \/ startsWith(url, <<"h", "t", "t", "p", ":", "/", "/">>)
               \/ startsWith(url, <<"h", "t", "t", "p", "s", ":", "/", "/">>) ) )

(***************************************************************************)
(* ABMasonryElement.create, `data.img = this.validateImgUrl( data.img )`:  *)
(* the descriptor after the assignment of the returned url (the function   *)
(* returns its argument), and the descriptors of the gallery after the     *)
(* items in `called` went through it; an invalid url throws before the     *)
(* assignment.                                                             *)
(***************************************************************************)
assignImg_Slash(data) == [data EXCEPT !.img = <<"/">> \o @]

assignImg(data) == [data EXCEPT !.img = data.img]

assignAll(its, called) ==
    [k \in DOMAIN its |->
        IF k \in called /\ validateImgUrl(its[k].img) THEN assignImg(its[k])
        ELSE its[k]]

(***************************************************************************)
(* ABMasonryElement.loadImage, img.onerror: the rejection reason.          *)
(***************************************************************************)
onerror_NoUrl(item) == Error("", LoadFailedText, <<>>)

onerror(item) == Error("", LoadFailedText, item.img)

(***************************************************************************)
(* ABMasonryElement.create, catch: every error is rethrown wrapped.        *)
(***************************************************************************)
createCatch(error) == Error(CreateFailedPrefix, error.text, error.arg)

(***************************************************************************)
(* ABMasonryElement.buildCaption: the text of the caption element,         *)
(* data.title ?? data.caption ?? ''.                                       *)
(***************************************************************************)
buildCaption(data) ==
    IF data.title # <<>> THEN data.title[1]
    ELSE IF data.caption # <<>> THEN data.caption[1]
    ELSE ""

(***************************************************************************)
(* ABMasonryElement.createContainer: the image, and the caption element    *)
(* when data.title ?? data.caption is a non-empty string.                  *)
(***************************************************************************)
createContainer(data) ==
    LET nullish == IF data.title # <<>> THEN data.title ELSE data.caption
    IN  [img |-> data.img,
         caption |-> IF nullish # <<>> /\ nullish[1] # ""
                     THEN <<buildCaption(data)>> ELSE <<>>]

(***************************************************************************)
(* ABMasonryElement.calculateProportionalSize                              *)
(***************************************************************************)
calculateProportionalSize_Swapped(naturalWidth, naturalHeight, target, direction) ==
    IF direction = "h"
    THEN MathRound(JsMul(JsDiv(Num(naturalWidth), Num(naturalHeight)), target))
    ELSE MathRound(JsMul(JsDiv(Num(naturalHeight), Num(naturalWidth)), target))

calculateProportionalSize_Floor(naturalWidth, naturalHeight, target, direction) ==
    LET floor(x) == IF IsFinite(x) THEN Num(x.n \div x.d) ELSE x
    IN  IF direction = "w"
        THEN floor(JsMul(JsDiv(Num(naturalWidth), Num(naturalHeight)), target))
        ELSE floor(JsMul(JsDiv(Num(naturalHeight), Num(naturalWidth)), target))

calculateProportionalSize(naturalWidth, naturalHeight, target, direction) ==
    IF direction = "w"
    THEN MathRound(JsMul(JsDiv(Num(naturalWidth), Num(naturalHeight)), target))
    ELSE MathRound(JsMul(JsDiv(Num(naturalHeight), Num(naturalWidth)), target))

(***************************************************************************)
(* ABMasonry.distributeItems, the columnWidth of one iteration.            *)
(***************************************************************************)
columnWidth_NoFallback(cw, cols) == JsDiv(Num(cw), Num(cols))

columnWidth(cw, cols) ==
    IF cw > 0 THEN JsDiv(Num(cw), Num(cols))
    ELSE JsDiv(Num(FallbackWidth), Num(cols))


(***************************************************************************)
(* Node.appendChild on the children of the container: a node that is       *)
(* already a child is moved to the end, never duplicated.                  *)
(***************************************************************************)
appendChild_Duplicate(children, node) == Append(children, node)

appendChild(children, node) ==
    SelectSeq(children, LAMBDA n : n # node) \o <<node>>

(***************************************************************************)
(* ABMasonryElement.create: element.container.addEventListener('click',    *)
(* onClick) when an onClick is given.  A listener is the index of the      *)
(* item its closure shows.                                                 *)
(***************************************************************************)
attachOnClick_Twice(element, onClick) ==
    IF onClick = <<>> THEN element
    ELSE [element EXCEPT !.clickListeners = @ \o onClick \o onClick]

attachOnClick(element, onClick) ==
    IF onClick = <<>> THEN element
    ELSE [element EXCEPT !.clickListeners = @ \o onClick]

(***************************************************************************)
(* new URL(value): the parse succeeds when the string starts with a        *)
(* scheme (a letter, then letters, digits, "+", "-", "."), a ":" and, for  *)
(* the schemes with a host (http, https), a non-empty host without blanks. *)
(***************************************************************************)
Letters == {"a", "b", "c", "d", "e", "f", "g", "h", "i", "j", "k", "l", "m",
            "n", "o", "p", "q", "r", "s", "t", "u", "v", "w", "x", "y", "z"}
SchemeChars == Letters \cup {"0", "1", "2", "3", "4", "5", "6", "7", "8", "9",
                             "+", "-", "."}

RECURSIVE stripSlashes(_)
stripSlashes(s) ==
    IF s # <<>> /\ Head(s) \in {"/", "\\"} THEN stripSlashes(Tail(s)) ELSE s

RECURSIVE hostOf(_)
hostOf(s) ==
    IF s = <<>> \/ Head(s) \in {"/", "\\", "?", "#"} THEN <<>>
    ELSE <<Head(s)>> \o hostOf(Tail(s))

URLParses(value) ==
    \E k \in 2..Len(value) :
        /\ value[k] = ":"
        /\ value[1] \in Letters
        /\ \A j \in 1..(k - 1) : value[j] \in SchemeChars
        /\ LET scheme == SubSeq(value, 1, k - 1)
               host == hostOf(stripSlashes(SubSeq(value, k + 1, Len(value))))
           IN  scheme \in {<<"h", "t", "t", "p">>, <<"h", "t", "t", "p", "s">>} =>
                   (host # <<>> /\ \A j \in DOMAIN host : host[j] # " ")

(***************************************************************************)
(* ABMasonryOverlay.validUrl: !!value && Boolean( new URL( value ) ), a    *)
(* throw of the parse giving false.                                        *)
(***************************************************************************)
validUrl_HttpOnly(value) ==
    /\ value # <<>>
    /\ value[1] # <<>>
    /\ URLParses(value[1])
    /\ startsWith(value[1], <<"h", "t", "t", "p">>)

validUrl(value) ==
    /\ value # <<>>
    /\ value[1] # <<>>
    /\ URLParses(value[1])

(***************************************************************************)
(* Nodes of the modal: an img or a figcaption holding a text or an anchor. *)
(***************************************************************************)
imgNode(url, title) ==
    [tag |-> "img", src |-> url, alt |-> title, text |-> "", anchor |-> <<>>]

(***************************************************************************)
(* ABMasonryOverlay.setImage                                               *)
(***************************************************************************)
setImage(m, url, title) == Append(m, imgNode(url, title))

(***************************************************************************)
(* ABMasonryOverlay.setCaption                                             *)
(***************************************************************************)
setCaption_NoRel(m, text, link) ==
    IF text # ""
    THEN IF validUrl(link)
         THEN Append(m, [tag |-> "figcaption", src |-> <<>>, alt |-> "", text |-> text,
                         anchor |-> <<[href |-> link[1], target |-> "_blank",
                                       rel |-> ""]>>])
         ELSE Append(m, [tag |-> "figcaption", src |-> <<>>, alt |-> "", text |-> text,
                         anchor |-> <<>>])
    ELSE m

setCaption(m, text, link) ==
    IF text # ""
    THEN IF validUrl(link)
         THEN Append(m, [tag |-> "figcaption", src |-> <<>>, alt |-> "", text |-> text,
                         anchor |-> <<[href |-> link[1], target |-> "_blank",
                                       rel |-> "noopener noreferrer"]>>])
         ELSE Append(m, [tag |-> "figcaption", src |-> <<>>, alt |-> "", text |-> text,
                         anchor |-> <<>>])
    ELSE m

(***************************************************************************)
(* ABMasonryOverlay.updateModal                                            *)
(***************************************************************************)
updateModal(m, item) ==
    LET alt == IF item.title # <<>> THEN item.title[1]
               ELSE IF item.caption # <<>> THEN item.caption[1]
               ELSE "ab-masonry"
        withImage == setImage(m, item.img, alt)
    IN  IF item.caption # <<>> /\ item.caption[1] # ""
        THEN setCaption(withImage, item.caption[1], item.link)
        ELSE withImage

(***************************************************************************)
(* ABMasonryOverlay.resetOverlay                                           *)
(***************************************************************************)
resetOverlay_Keep(m) == m

resetOverlay(m) == <<>>

(***************************************************************************)
(* ABMasonryOverlay.show and hide, on the overlay [visible, modal].        *)
(***************************************************************************)
show_Toggle(ov, item) ==
    [visible |-> ~ov.visible, modal |-> updateModal(ov.modal, item)]

show(ov, item) ==
    [visible |-> TRUE, modal |-> updateModal(ov.modal, item)]

hide_KeepVisible(ov) ==
    [visible |-> ov.visible, modal |-> resetOverlay(ov.modal)]

hide(ov) ==
    [visible |-> FALSE, modal |-> resetOverlay(ov.modal)]

(***************************************************************************)
(* The click listener of the overlay root, () => this.hide(): it runs for  *)
(* a click on the root and for a click that bubbles from a descendant.     *)
(***************************************************************************)
ClickTargets == {"overlay", "modal", "child"}

overlayClick_RootOnly(ov, target) ==
    IF target = "overlay" THEN hide(ov) ELSE ov

overlayClick(ov, target) == hide(ov)

(***************************************************************************)
(* ABMasonryRenderer.attachDragScroll: the closure of one listener set of  *)
(* renderer r on column c.                                                 *)
(***************************************************************************)
attachDragScroll(r, c) ==
    [renderer |-> r, column |-> c, isDown |-> FALSE, startX |-> 0, scrollStart |-> 0]

(***************************************************************************)
(* ABMasonryRenderer.refreshDragScroll of renderer r: the cleanup          *)
(* functions detach every listener set of r, then, below the breakpoint,   *)
(* one set is attached to each column found in the container.              *)
(***************************************************************************)
refreshDragScroll_NoCleanup(r, cl, width, mountedColumns) ==
    IF width >= MobileBreakpoint THEN cl
    ELSE cl \o [c \in 1..mountedColumns |-> attachDragScroll(r, c)]

refreshDragScroll(r, cl, width, mountedColumns) ==
    LET kept == SelectSeq(cl, LAMBDA b : b.renderer # r)
    IN  IF width >= MobileBreakpoint THEN kept
        ELSE kept \o [c \in 1..mountedColumns |-> attachDragScroll(r, c)]

(***************************************************************************)
(* The listeners of one closure b of attachDragScroll.                     *)
(***************************************************************************)
onMouseDown(b, pageX, sl) ==
    [b EXCEPT !.isDown = TRUE, !.startX = pageX, !.scrollStart = sl]

\* the scrollLeft of the column after the listener
onMouseMove_Plus(b, pageX, sl) ==
    IF ~b.isDown THEN sl ELSE b.scrollStart + (pageX - b.startX)

onMouseMove(b, pageX, sl) ==
    IF ~b.isDown THEN sl ELSE b.scrollStart - (pageX - b.startX)

onMouseUp_KeepDown(b) == b

onMouseUp(b) == [b EXCEPT !.isDown = FALSE]

\* the closure after a mouseleave event of its column: attachDragScroll
\* registers scroll, mousedown, mousemove and mouseup, and nothing for it
dispatchMouseLeave_EndsDrag(b) == [b EXCEPT !.isDown = FALSE]

dispatchMouseLeave(b) == b

\* offsetWidth and scrollWidth of a column container
OffsetWidth == 100
ScrollWidth == 300

\* classList.toggle( token, force )
toggle(classes, token, force) ==
    IF force THEN classes \cup {token} ELSE classes \ {token}

\* the class list of the column after the listener, the column having the
\* given scrollLeft, offsetWidth and scrollWidth
onScroll_Strict(classes, sl, offsetWidth, scrollWidth) ==
    LET atStart == sl < 1
        atEnd == sl + offsetWidth > scrollWidth - 1
    IN  toggle(toggle(classes, "scroll-start", atStart), "scroll-end", atEnd)

onScroll_Wide(classes, sl, offsetWidth, scrollWidth) ==
    LET atStart == sl <= 2
        atEnd == sl + offsetWidth >= scrollWidth - 2
    IN  toggle(toggle(classes, "scroll-start", atStart), "scroll-end", atEnd)

onScroll(classes, sl, offsetWidth, scrollWidth) ==
    LET atStart == sl <= 1
        atEnd == sl + offsetWidth >= scrollWidth - 1
    IN  toggle(toggle(classes, "scroll-start", atStart), "scroll-end", atEnd)

(***************************************************************************)
(* ABMasonry.distributeItems from item i on, up to the next suspension.    *)
(* st is the part of the state the loop writes: [pc, imageRequests,        *)
(* inflight, attempted, warnings].  An item that fails validation makes    *)
(* ABMasonryElement.create reject before loadImage is called; the catch    *)
(* of the loop logs it and the loop goes on.  A valid item starts its      *)
(* image load and the loop is suspended on it.  After the last item the    *)
(* promises of distributeItems, build and create resolve.                  *)
(***************************************************************************)
invalidItemError == createCatch(Error("", InvalidItemText, <<>>))

RECURSIVE distributeItems_AbortOnError(_, _, _)
distributeItems_AbortOnError(its, i, st) ==
    IF i > Len(its) THEN [st EXCEPT !.pc = "resolved"]
    ELSE IF validateImgUrl(its[i].img)
         THEN [st EXCEPT !.pc = "awaiting",
                         !.attempted = @ \cup {i},
                         !.imageRequests = Append(@, i),
                         !.inflight = @ \cup {i}]
         ELSE [st EXCEPT !.pc = "rejected", !.attempted = @ \cup {i}]

RECURSIVE distributeItems_NoAwait(_, _, _)
distributeItems_NoAwait(its, i, st) ==
    IF i > Len(its)
    THEN [st EXCEPT !.pc = IF st.inflight = {} THEN "resolved" ELSE "awaiting"]
    ELSE IF i \in st.attempted THEN distributeItems_NoAwait(its, i + 1, st)
    ELSE IF validateImgUrl(its[i].img)
         THEN distributeItems_NoAwait(its, i + 1,
                  [st EXCEPT !.attempted = @ \cup {i},
                             !.imageRequests = Append(@, i),
                             !.inflight = @ \cup {i}])
         ELSE distributeItems_NoAwait(its, i + 1,
                  [st EXCEPT !.attempted = @ \cup {i},
                             !.warnings = Append(@, [item |-> i,
                                                     error |-> invalidItemError])])

RECURSIVE distributeItems_ResolveEarly(_, _, _)
distributeItems_ResolveEarly(its, i, st) ==
    IF i > Len(its) THEN [st EXCEPT !.pc = "resolved"]
    ELSE IF validateImgUrl(its[i].img)
         THEN [st EXCEPT !.pc = "resolved",
                         !.attempted = @ \cup {i},
                         !.imageRequests = Append(@, i),
                         !.inflight = @ \cup {i}]
         ELSE distributeItems_ResolveEarly(its, i + 1,
                  [st EXCEPT !.attempted = @ \cup {i},
                             !.warnings = Append(@, [item |-> i,
                                                     error |-> invalidItemError])])

RECURSIVE distributeItems(_, _, _)
distributeItems(its, i, st) ==
    IF i > Len(its) THEN [st EXCEPT !.pc = "resolved"]
    ELSE IF validateImgUrl(its[i].img)
         THEN [st EXCEPT !.pc = "awaiting",
                         !.attempted = @ \cup {i},
                         !.imageRequests = Append(@, i),
                         !.inflight = @ \cup {i}]
         ELSE distributeItems(its, i + 1,
                  [st EXCEPT !.attempted = @ \cup {i},
                             !.warnings = Append(@, [item |-> i,
                                                     error |-> invalidItemError])])

loopState == [pc |-> pc, imageRequests |-> imageRequests, inflight |-> inflight,
              attempted |-> attempted, warnings |-> warnings]

SetLoopState(st) ==
    /\ pc' = st.pc
    /\ imageRequests' = st.imageRequests
    /\ inflight' = st.inflight
    /\ attempted' = st.attempted
    /\ warnings' = st.warnings

(***************************************************************************)
(* State after module load: no gallery has been created.                   *)
(***************************************************************************)
Init ==
    /\ pc = "idle"
    /\ selector = [kind |-> "none", value |-> ""]
    /\ items = <<>>
    /\ options = mergeOptions([columns |-> <<>>])
    /\ clientWidth = 0
    /\ columns = <<>>
    /\ created = <<>>
    /\ imageRequests = <<>>
    /\ inflight = {}
    /\ loaded = {}
    /\ failed = {}
    /\ attempted = {}
    /\ warnings = <<>>
    /\ createError = NoError
    /\ overlayAppended = FALSE
    /\ mounted = FALSE
    /\ renders = 0
    /\ overlayVisible = FALSE
    /\ modal = <<>>
    /\ lastCall = [op |-> "none", item |-> <<>>, via |-> "none", element |-> 0]
    /\ innerWidth = MobileBreakpoint
    /\ resizeListeners = {}
    /\ closures = <<>>
    /\ scrollLeft = <<>>
    /\ classList = <<>>
    /\ containerChildren = <<>>
    /\ style = <<>>
    /\ pointerOver = 0
    /\ evaluated = [fn |-> "none", args |-> <<>>, result |-> <<>>]
    /\ legacy = [constructed |-> FALSE, items |-> <<>>, pending |-> {},
                 columnHeights |-> <<>>, columns |-> <<>>, height |-> <<>>,
                 dropped |-> {}]

(***************************************************************************)
(* ABMasonry.create(sel, its, opts): the constructor (resolveContainer,    *)
(* option merge, new ABMasonryOverlay), then build (createColumns and      *)
(* distributeItems up to its first suspension).  cw is the clientWidth of  *)
(* the container in the document.                                          *)
(***************************************************************************)
create_OverlayFirst(sel, its, opts, cw) ==
    /\ pc = "idle"
    /\ selector' = sel
    /\ LET container == resolveContainer(sel) IN
       IF container.thrown
       THEN /\ pc' = "rejected"
            /\ createError' = container.error
            /\ overlayAppended' = TRUE
            /\ UNCHANGED <<items, options, clientWidth, columns, imageRequests,
                           inflight, attempted, warnings, columnDomVars>>
       ELSE /\ options' = mergeOptions(opts)
            /\ clientWidth' = cw
            /\ overlayAppended' = TRUE
            /\ columns' = createColumns(mergeOptions(opts).columns)
            /\ scrollLeft' = [c \in 1..mergeOptions(opts).columns |-> 0]
            /\ classList' = [c \in 1..mergeOptions(opts).columns |-> {}]
            /\ SetLoopState(distributeItems(its, 1, loopState))
            /\ items' = assignAll(its, attempted')
            /\ UNCHANGED createError
    /\ UNCHANGED <<created, loaded, failed, mounted, renders, overlayVars, rendererVars,
                   containerChildren, style, pointerOver, evaluated, legacy>>

create(sel, its, opts, cw) ==
    /\ pc = "idle"
    /\ selector' = sel
    /\ LET container == resolveContainer(sel) IN
       IF container.thrown
       THEN /\ pc' = "rejected"
            /\ createError' = container.error
            /\ UNCHANGED <<items, options, clientWidth, columns, imageRequests,
                           inflight, attempted, warnings, overlayAppended,
                           columnDomVars>>
       ELSE /\ options' = mergeOptions(opts)
            /\ clientWidth' = cw
            /\ overlayAppended' = TRUE
            /\ columns' = createColumns(mergeOptions(opts).columns)
            /\ scrollLeft' = [c \in 1..mergeOptions(opts).columns |-> 0]
            /\ classList' = [c \in 1..mergeOptions(opts).columns |-> {}]
            /\ SetLoopState(distributeItems(its, 1, loopState))
            /\ items' = assignAll(its, attempted')
            /\ UNCHANGED createError
    /\ UNCHANGED <<created, loaded, failed, mounted, renders, overlayVars, rendererVars,
                   containerChildren, style, pointerOver, evaluated, legacy>>

Create ==
    \E sel \in Selectors, its \in ItemLists, opts \in UserOptions, cw \in ClientWidths :
        create(sel, its, opts, cw)

(***************************************************************************)
(* img.onload of the pending load of item i, the image reporting the       *)
(* natural size `size`: loadImage resolves, ABMasonryElement.create        *)
(* builds the element and computes its height, distributeItems appends it  *)
(* to the shortest column and goes on with item i + 1.  With no column,    *)
(* this.columns[0] is undefined and the append throws into the catch of    *)
(* the loop.                                                               *)
(***************************************************************************)
onload(i, size) ==
    /\ i \in inflight
    /\ LET width == columnWidth(clientWidth, options.columns)
           element == attachOnClick(
                          [item |-> i,
                           height |-> calculateProportionalSize(size[1], size[2],
                                                                width, "h"),
                           container |-> createContainer(items[i]),
                           clickListeners |-> <<>>],
                          <<i>>)
           shortest == getShortestColumn(columns)
           hasColumn == shortest \in DOMAIN columns
           st0 == [loopState EXCEPT !.inflight = @ \ {i}]
           st1 == IF hasColumn THEN st0
                  ELSE [st0 EXCEPT !.warnings =
                           Append(@, [item |-> i,
                                      error |-> Error("", UndefinedColumnText, <<>>)])]
       IN  /\ loaded' = loaded \cup {i}
           /\ created' = Append(created, element)
           /\ columns' = IF hasColumn
                         THEN [columns EXCEPT ![shortest] = appendElement(@, element)]
                         ELSE columns
           /\ SetLoopState(distributeItems(items, i + 1, st1))
    /\ items' = assignAll(items, attempted' \ attempted)
    /\ UNCHANGED <<selector, options, clientWidth, failed, createError,
                   overlayAppended, mounted, renders, overlayVars, rendererVars,
                   columnDomVars, containerChildren, style, pointerOver, evaluated, legacy>>

ImgLoad == \E i \in inflight, size \in NaturalSizes : onload(i, size)

(***************************************************************************)
(* img.onerror of the pending load of item i: loadImage rejects,           *)
(* ABMasonryElement.create rethrows wrapped, the catch of the loop logs    *)
(* the error and the loop goes on with item i + 1.                         *)
(***************************************************************************)
ImgError ==
    \E i \in inflight :
        /\ failed' = failed \cup {i}
        /\ SetLoopState(distributeItems(items, i + 1,
               [loopState EXCEPT !.inflight = @ \ {i},
                                 !.warnings = Append(@, [item |-> i,
                                     error |-> createCatch(onerror(items[i]))])]))
        /\ items' = assignAll(items, attempted' \ attempted)
        /\ UNCHANGED <<selector, options, clientWidth, columns, created,
                       loaded, createError, overlayAppended, mounted, renders,
                       overlayVars, rendererVars, columnDomVars,
                       containerChildren, style, pointerOver, evaluated, legacy>>

(***************************************************************************)
(* ABMasonry.render(), called by the holder of the instance, that is       *)
(* after create has resolved: a new ABMasonryRenderer (its constructor     *)
(* adds a resize listener to the window), whose render appends every       *)
(* column container to the container and calls refreshDragScroll.          *)
(***************************************************************************)
\* Number.prototype.toString of a natural number: its decimal digits
Digit(d) == CASE d = 0 -> "0" [] d = 1 -> "1" [] d = 2 -> "2" [] d = 3 -> "3"
              [] d = 4 -> "4" [] d = 5 -> "5" [] d = 6 -> "6" [] d = 7 -> "7"
              [] d = 8 -> "8" [] d = 9 -> "9"

RECURSIVE digits(_)
digits(n) == IF n < 10 THEN <<Digit(n)>> ELSE Append(digits(n \div 10), Digit(n % 10))

toString(v) == IF v.type = "number" THEN digits(v.n) ELSE v.chars

\* the value render gives --ab-gap: `${ gap.toString() || 16 }px`
setGap(gap) ==
    (IF toString(gap) # <<>> THEN toString(gap) ELSE digits(16)) \o <<"p", "x">>

RECURSIVE renderColumns(_, _, _)
renderColumns(children, c, n) ==
    IF c > n THEN children
    ELSE renderColumns(appendChild(children, c), c + 1, n)

renderUpTo(cap) ==
    /\ pc = "resolved"
    /\ renders < cap
    /\ mounted' = TRUE
    /\ style' = <<setGap(options.gap)>>
    /\ containerChildren' = renderColumns(containerChildren, 1, Len(columns))
    /\ renders' = renders + 1
    /\ resizeListeners' = resizeListeners \cup {renders + 1}
    /\ closures' = refreshDragScroll(renders + 1, closures, innerWidth, Len(columns))
    /\ UNCHANGED <<pc, selector, items, options, clientWidth, columns, created,
                   imageRequests, inflight, loaded, failed, attempted, warnings,
                   createError, overlayAppended, overlayVars, innerWidth,
                   columnDomVars, pointerOver, evaluated, legacy>>

render == renderUpTo(MaxRenders)

Next == Create \/ ImgLoad \/ ImgError \/ render

Spec == Init /\ [][Next]_vars

(***************************************************************************)
(* Every pending image load eventually signals success or failure.         *)
(***************************************************************************)
ImgSettle == ImgLoad \/ ImgError

LiveSpec == Init /\ [][Next]_vars /\ WF_vars(ImgSettle)

(***************************************************************************)
(* The overlay: items with the optional title, caption and link.           *)
(***************************************************************************)
LinkHttps == <<"h", "t", "t", "p", "s", ":", "/", "/", "e", ".", "c">>
LinkNotUrl == <<"n", "o", "t", " ", "a", " ", "u", "r", "l">>
LinkJavascript == <<"j", "a", "v", "a", "s", "c", "r", "i", "p", "t", ":", "a", "(", ")">>

\* item.link: absent, the empty string, or a string
Links == {<<>>, <<<<>>>>, <<LinkHttps>>, <<LinkNotUrl>>, <<LinkJavascript>>}

OverlayItems == [img : {UrlHttps}, title : {<<>>, <<"T">>},
                 caption : {<<>>, <<"">>, <<"C">>}, link : Links]

\* the galleries whose items are clicked
LinkedItem == [img |-> UrlHttps, title |-> <<>>, caption |-> <<"C">>,
               link |-> <<LinkHttps>>]
TitledItem == [img |-> UrlRootRelative, title |-> <<"T">>, caption |-> <<>>,
               link |-> <<>>]
OverlayItemLists == {<<LinkedItem>>, <<LinkedItem, TitledItem>>}

overlay == [visible |-> overlayVisible, modal |-> modal]

SetOverlay(ov) ==
    /\ overlayVisible' = ov.visible
    /\ modal' = ov.modal

\* number of images in the modal
Shown(m) == Cardinality({k \in DOMAIN m : m[k].tag = "img"})

galleryVars == <<pc, selector, items, options, clientWidth, columns, created,
                 imageRequests, inflight, loaded, failed, attempted, warnings,
                 createError, overlayAppended, mounted, renders, containerChildren,
                 style>>

OverlayCreate ==
    \E its \in OverlayItemLists :
        create(ElementArg, its, [columns |-> <<1>>], 300)

OverlayImgLoad == \E i \in inflight : onload(i, <<2, 1>>)

(***************************************************************************)
(* A call of show(item) on the overlay.                                    *)
(***************************************************************************)
Show ==
    \E item \in OverlayItems :
        /\ overlayAppended
        /\ Shown(modal) < MaxShows
        /\ SetOverlay(show(overlay, item))
        /\ lastCall' = [op |-> "show", item |-> <<item>>, via |-> "call", element |-> 0]
        /\ UNCHANGED <<galleryVars, rendererVars, columnDomVars, pointerOver, evaluated, legacy>>

(***************************************************************************)
(* A call of hide() on the overlay.                                        *)
(***************************************************************************)
Hide ==
    /\ overlayAppended
    /\ SetOverlay(hide(overlay))
    /\ lastCall' = [op |-> "hide", item |-> <<>>, via |-> "call", element |-> 0]
    /\ UNCHANGED <<galleryVars, rendererVars, columnDomVars, pointerOver, evaluated, legacy>>

(***************************************************************************)
(* A click on the mounted container of element k (or on its image or       *)
(* caption, from which it bubbles): every click listener of the container  *)
(* runs, each one being () => this.overlay.show( item ) of its item.       *)
(***************************************************************************)
RECURSIVE dispatchClick(_, _, _)
dispatchClick(ov, listeners, its) ==
    IF listeners = <<>> THEN ov
    ELSE dispatchClick(show(ov, its[Head(listeners)]), Tail(listeners), its)

ItemClick ==
    \E k \in DOMAIN created :
        /\ mounted
        /\ \E c \in DOMAIN columns : \E j \in DOMAIN columns[c].elements :
               columns[c].elements[j].item = created[k].item
        /\ created[k].clickListeners # <<>>
        /\ Shown(modal) < MaxShows
        /\ SetOverlay(dispatchClick(overlay, created[k].clickListeners, items))
        /\ lastCall' = [op |-> "show",
                        item |-> <<items[created[k].clickListeners[
                                           Len(created[k].clickListeners)]]>>,
                        via |-> "item", element |-> k]
        /\ UNCHANGED <<galleryVars, rendererVars, columnDomVars, pointerOver, evaluated, legacy>>

(***************************************************************************)
(* A click on the overlay root, on the modal or on a child of the modal.   *)
(***************************************************************************)
OverlayClick ==
    \E target \in ClickTargets :
        /\ overlayAppended
        /\ target = "child" => modal # <<>>
        /\ SetOverlay(overlayClick(overlay, target))
        /\ lastCall' = [op |-> "hide", item |-> <<>>, via |-> target, element |-> 0]
        /\ UNCHANGED <<galleryVars, rendererVars, columnDomVars, pointerOver, evaluated, legacy>>

OverlayNext ==
    \/ OverlayCreate
    \/ OverlayImgLoad
    \/ ImgError
    \/ render
    \/ Show
    \/ Hide
    \/ ItemClick
    \/ OverlayClick

OverlaySpec == Init /\ [][OverlayNext]_vars

(***************************************************************************)
(* Drag-scroll: the pointer and scroll events of the mounted columns.      *)
(***************************************************************************)
\* window.innerWidth: just below the breakpoint, and at it
InnerWidths == {MobileBreakpoint - 1, MobileBreakpoint}

\* e.pageX of a mouse event
PageXs == {100, 200}

\* column.scrollLeft after a scroll by the user
ScrollOffsets == {0, 100, 200}

DragCreate ==
    \E n \in 1..2 : create(ElementArg, <<>>, [columns |-> <<n>>], 300)

\* the columns of the container found by querySelectorAll
mountedColumns == IF mounted THEN Len(columns) ELSE 0

(***************************************************************************)
(* The window is resized to the width w: the resize listener of every      *)
(* renderer runs handleResize, in the order the renderers were made.       *)
(***************************************************************************)
RECURSIVE handleResize(_, _, _, _)
handleResize(r, cl, width, n) ==
    IF r > renders THEN cl
    ELSE handleResize(r + 1,
                      IF r \in resizeListeners
                      THEN refreshDragScroll(r, cl, width, n) ELSE cl,
                      width, n)

Resize ==
    \E w \in InnerWidths :
        /\ innerWidth' = w
        /\ closures' = handleResize(1, closures, w, mountedColumns)
        /\ UNCHANGED <<galleryVars, overlayVars, resizeListeners, columnDomVars,
                       pointerOver, evaluated, legacy>>

(***************************************************************************)
(* mousedown on the mounted column c (or on a descendant) at pageX x: the  *)
(* onMouseDown of every listener set attached to the column runs.          *)
(***************************************************************************)
MouseDown(c, x) ==
    /\ mounted
    /\ c \in DOMAIN columns
    /\ closures' = [k \in DOMAIN closures |->
                       IF closures[k].column = c
                       THEN onMouseDown(closures[k], x, scrollLeft[c])
                       ELSE closures[k]]
    /\ classList' = [classList EXCEPT ![c] =
                        IF \E k \in DOMAIN closures : closures[k].column = c
                        THEN @ \cup {"grabbing"} ELSE @]
    /\ pointerOver' = c
    /\ UNCHANGED <<galleryVars, overlayVars, innerWidth, resizeListeners, scrollLeft,
                   evaluated, legacy>>

(***************************************************************************)
(* mousemove on the document at pageX x: the onMouseMove of every          *)
(* attached listener set runs, in the order of attachment.  The drag is    *)
(* followed while the offsets stay within 0 .. MaxScrollLeft.              *)
(***************************************************************************)
RECURSIVE moveAll(_, _, _)
moveAll(cl, x, sl) ==
    IF cl = <<>> THEN sl
    ELSE moveAll(Tail(cl), x,
                 [sl EXCEPT ![Head(cl).column] = onMouseMove(Head(cl), x, @)])

MouseMove(x) ==
    /\ mounted
    /\ scrollLeft' = moveAll(closures, x, scrollLeft)
    /\ \A c \in DOMAIN scrollLeft : scrollLeft'[c] \in 0..MaxScrollLeft
    /\ UNCHANGED <<galleryVars, overlayVars, rendererVars, classList, pointerOver,
                   evaluated, legacy>>

(***************************************************************************)
(* mouseup on the document: the onMouseUp of every attached listener set   *)
(* runs.                                                                   *)
(***************************************************************************)
MouseUp ==
    /\ mounted
    /\ closures' = [k \in DOMAIN closures |-> onMouseUp(closures[k])]
    /\ classList' = [c \in DOMAIN classList |->
                        IF \E k \in DOMAIN closures : closures[k].column = c
                        THEN classList[c] \ {"grabbing"} ELSE classList[c]]
    /\ UNCHANGED <<galleryVars, overlayVars, innerWidth, resizeListeners, scrollLeft,
                   pointerOver, evaluated, legacy>>

(***************************************************************************)
(* The user scrolls the mounted column c to the offset off.                *)
(***************************************************************************)
ScrollTo(c, off) ==
    /\ mounted
    /\ c \in DOMAIN columns
    /\ scrollLeft' = [scrollLeft EXCEPT ![c] = off]
    /\ UNCHANGED <<galleryVars, overlayVars, rendererVars, classList, pointerOver,
                   evaluated, legacy>>

(***************************************************************************)
(* The scroll event of column c: the onScroll of every listener set        *)
(* attached to the column runs.                                            *)
(***************************************************************************)
ScrollEvent(c) ==
    /\ mounted
    /\ c \in DOMAIN columns
    /\ classList' = [classList EXCEPT ![c] =
                        IF \E k \in DOMAIN closures : closures[k].column = c
                        THEN onScroll(@, scrollLeft[c], OffsetWidth, ScrollWidth) ELSE @]
    /\ UNCHANGED <<galleryVars, overlayVars, rendererVars, scrollLeft, pointerOver,
                   evaluated, legacy>>

(***************************************************************************)
(* The pointer leaves the column c it went down on: a mouseleave event of  *)
(* the column.                                                             *)
(***************************************************************************)
MouseLeave(c) ==
    /\ mounted
    /\ pointerOver = c
    /\ pointerOver' = 0
    /\ closures' = [k \in DOMAIN closures |->
                       IF closures[k].column = c
                       THEN dispatchMouseLeave(closures[k])
                       ELSE closures[k]]
    /\ UNCHANGED <<galleryVars, overlayVars, innerWidth, resizeListeners,
                   columnDomVars, evaluated, legacy>>

\* render() called again on the same instance
Rerender == renderUpTo(MaxRenders + 1)

PointerLeave == \E c \in 1..2 : MouseLeave(c)
PointerDown == \E c \in 1..2, x \in PageXs : MouseDown(c, x)
PointerMove == \E x \in PageXs : MouseMove(x)
UserScroll == \E c \in 1..2, off \in ScrollOffsets : ScrollTo(c, off)
Scrolled == \E c \in 1..2 : ScrollEvent(c)

DragNext ==
    \/ DragCreate
    \/ render
    \/ Resize
    \/ PointerDown
    \/ PointerLeave
    \/ PointerMove
    \/ MouseUp
    \/ UserScroll
    \/ Scrolled

DragSpec == Init /\ [][DragNext]_vars

(***************************************************************************)
(* A gallery with elements, under every event of the page: loads, render,  *)
(* resize, clicks on items and on the overlay, pointer and scroll events.  *)
(***************************************************************************)
FrameNext ==
    \/ OverlayCreate
    \/ OverlayImgLoad
    \/ ImgError
    \/ render
    \/ Resize
    \/ ItemClick
    \/ OverlayClick
    \/ PointerDown
    \/ PointerMove
    \/ MouseUp
    \/ UserScroll
    \/ Scrolled

FrameSpec == Init /\ [][FrameNext]_vars

(***************************************************************************)
(* Galleries of every column option, rendered once or again, and resized.  *)
(***************************************************************************)
GapOptions == {<<>>, <<Gap12px>>, <<GapEmpty>>, <<Gap16>>}
RenderOptions == [columns : {<<>>} \cup {<<n>> : n \in 0..MaxCols}, gap : GapOptions]

RenderCreate ==
    \E sel \in Selectors, its \in {l \in ItemLists : Len(l) <= 1},
       opts \in RenderOptions, cw \in ClientWidths :
        create(sel, its, opts, cw)

RenderNext ==
    \/ RenderCreate
    \/ ImgLoad
    \/ ImgError
    \/ Rerender
    \/ Resize

RenderSpec == Init /\ [][RenderNext]_vars

(***************************************************************************)
(* The functions of the program that depend on their arguments only,       *)
(* applied to arguments drawn from bounded sets.                           *)
(***************************************************************************)
pageVars == <<galleryVars, overlayVars, rendererVars, columnDomVars, pointerOver,
              legacy>>

\* naturalWidth and naturalHeight of an image
NaturalLengths == 0..MaxNatural

\* the target of a scaling: column widths the gallery computes, and 1
Targets == {Num(1), Num(3), Num(300), Rat(1024, 3)}

\* item descriptors: title and caption absent, empty or a text
ElementItems == [img : {UrlRootRelative}, title : {<<>>, <<"">>, <<"T">>},
                 caption : {<<>>, <<"">>, <<"C">>}, link : {<<>>}]

Markers == {"grabbing", "scroll-start", "scroll-end"}

EvalScale ==
    \E w \in NaturalLengths, h \in NaturalLengths, t \in Targets, dir \in {"w", "h"} :
        /\ evaluated' = [fn |-> "calculateProportionalSize",
                         args |-> <<w, h, t, dir>>,
                         result |-> calculateProportionalSize(w, h, t, dir)]
        /\ UNCHANGED pageVars

EvalColumnWidth ==
    \E cw \in {0, 1, 300, 1000}, cols \in 1..(MaxCols + 1) :
        /\ evaluated' = [fn |-> "columnWidth", args |-> <<cw, cols>>,
                         result |-> columnWidth(cw, cols)]
        /\ UNCHANGED pageVars

EvalCreateContainer ==
    \E data \in ElementItems :
        /\ evaluated' = [fn |-> "createContainer", args |-> <<data>>,
                         result |-> createContainer(data)]
        /\ UNCHANGED pageVars

\* a column of visible width ow and total width sw >= ow, scrolled to an
\* offset of its scrollable range 0 .. sw - ow
EvalOnScroll ==
    \E classes \in SUBSET Markers, ow \in 1..MaxWidth :
        \E sw \in ow..MaxWidth : \E sl \in 0..(sw - ow) :
            /\ evaluated' = [fn |-> "onScroll", args |-> <<classes, sl, ow, sw>>,
                             result |-> onScroll(classes, sl, ow, sw)]
            /\ UNCHANGED pageVars

PureNext ==
    \/ EvalScale
    \/ EvalColumnWidth
    \/ EvalCreateContainer
    \/ EvalOnScroll

PureSpec == Init /\ [][PureNext]_vars

(***************************************************************************)
(* The constructor-based ABMasonry.  legacy.columnHeights is the array of  *)
(* tracked heights, legacy.columns the children of each column element     *)
(* (item indexes), legacy.pending the items whose Image was given its src   *)
(* and has not signalled, legacy.height the measured height of each        *)
(* appended element, legacy.dropped the items whose load errored.          *)
(***************************************************************************)
LegacyItem == [url |-> UrlHttps, description |-> <<>>, link |-> <<>>]
LegacyItemLists == {[k \in 1..n |-> LegacyItem] : n \in 0..MaxItems}

\* options.cols: a number of columns, at least 1
LegacyCols == 1..MaxCols

\* heights getBoundingClientRect reports for an appended element
RectHeights == {1, 2}

\* Math.min( ...heights ) of a non-empty array of finite numbers
RECURSIVE MathMin(_)
MathMin(heights) ==
    IF Len(heights) = 1 THEN heights[1]
    ELSE LET m == MathMin(Tail(heights))
         IN  IF heights[1] <= m THEN heights[1] ELSE m

\* Array.prototype.indexOf on 1-based positions, 0 when absent
RECURSIVE indexOfFrom(_, _, _)
indexOfFrom(array, value, k) ==
    IF k > Len(array) THEN 0
    ELSE IF array[k] = value THEN k
    ELSE indexOfFrom(array, value, k + 1)

indexOf(array, value) == indexOfFrom(array, value, 1)

getShortestColumnIndex_Last(columnHeights) ==
    CHOOSE c \in DOMAIN columnHeights :
        /\ columnHeights[c] = MathMin(columnHeights)
        /\ \A d \in DOMAIN columnHeights : d > c => columnHeights[d] # columnHeights[c]

getShortestColumnIndex(columnHeights) ==
    indexOf(columnHeights, MathMin(columnHeights))

(***************************************************************************)
(* new ABMasonry(selector, its, { cols }) with a selector that matches:    *)
(* the tracked heights are filled with 0, render adds the columns and the  *)
(* forEach starts the load of every item before any of them signals.       *)
(***************************************************************************)
LegacyNew ==
    \E its \in LegacyItemLists, cols \in LegacyCols :
        /\ ~legacy.constructed
        /\ legacy' = [constructed |-> TRUE,
                      items |-> its,
                      pending |-> DOMAIN its,
                      columnHeights |-> [c \in 1..cols |-> 0],
                      columns |-> [c \in 1..cols |-> <<>>],
                      height |-> [k \in DOMAIN its |-> 0],
                      dropped |-> {}]
        /\ UNCHANGED <<galleryVars, overlayVars, rendererVars, columnDomVars,
                       pointerOver, evaluated>>

(***************************************************************************)
(* img.onload of item i: createImageContainer resolves with the built      *)
(* element and the callback of forEach goes on without a further           *)
(* suspension: shortest column, appendChild, tracked height += the         *)
(* measured height h of the element.                                       *)
(***************************************************************************)
legacyOnload(i, h) ==
    /\ i \in legacy.pending
    /\ LET idx == getShortestColumnIndex(legacy.columnHeights) IN
       legacy' = [legacy EXCEPT !.pending = @ \ {i},
                                !.columns[idx] = Append(@, i),
                                !.columnHeights[idx] = @ + h,
                                !.height[i] = h]
    /\ UNCHANGED <<galleryVars, overlayVars, rendererVars, columnDomVars,
                   pointerOver, evaluated>>

LegacyImgLoad == \E i \in legacy.pending, h \in RectHeights : legacyOnload(i, h)

(***************************************************************************)
(* img.onerror of item i: createImageContainer resolves with null and the  *)
(* callback returns.                                                       *)
(***************************************************************************)
LegacyImgError ==
    \E i \in legacy.pending :
        /\ legacy' = [legacy EXCEPT !.pending = @ \ {i}, !.dropped = @ \cup {i}]
        /\ UNCHANGED <<galleryVars, overlayVars, rendererVars, columnDomVars,
                       pointerOver, evaluated>>

LegacyNext == LegacyNew \/ LegacyImgLoad \/ LegacyImgError

LegacySpec == Init /\ [][LegacyNext]_vars

(***************************************************************************)
(* Vocabulary of the properties.                                           *)
(***************************************************************************)
Range(f) == {f[x] : x \in DOMAIN f}

RECURSIVE SumHeights(_)
SumHeights(elements) ==
    IF elements = <<>> THEN Num(0)
    ELSE JsAdd(SumHeights(SubSeq(elements, 1, Len(elements) - 1)),
               elements[Len(elements)].height)

RECURSIVE SumColumnHeights(_)
SumColumnHeights(cols) ==
    IF cols = <<>> THEN Num(0)
    ELSE JsAdd(SumColumnHeights(SubSeq(cols, 1, Len(cols) - 1)),
               cols[Len(cols)].height)

RECURSIVE TotalElements(_)
TotalElements(cols) ==
    IF cols = <<>> THEN 0
    ELSE TotalElements(SubSeq(cols, 1, Len(cols) - 1)) + Len(cols[Len(cols)].elements)

\* item indexes held by some column
Placed == UNION {{e.item : e \in Range(columns[c].elements)} : c \in DOMAIN columns}

\* item indexes logged by the catch of distributeItems
Skipped == {w.item : w \in Range(warnings)}

\* the source is a root-relative path or an http(s) URL
HasUrlForm(url) ==
    \/ (Len(url) >= 1 /\ SubSeq(url, 1, 1) = <<"/">>)
    \/ (Len(url) >= 7 /\ SubSeq(url, 1, 7) = <<"h", "t", "t", "p", ":", "/", "/">>)
    \/ (Len(url) >= 8 /\ SubSeq(url, 1, 8) = <<"h", "t", "t", "p", "s", ":", "/", "/">>)

InvalidItems == {i \in DOMAIN items : ~HasUrlForm(items[i].img)}

IsPrefix(s, t) == Len(s) <= Len(t) /\ SubSeq(t, 1, Len(s)) = s

\* the columns chosen, in order, for elements of the given heights
RECURSIVE Placements(_, _)
Placements(cols, heights) ==
    IF heights = <<>> THEN <<>>
    ELSE LET c == getShortestColumn(cols)
             e == [item |-> 0, height |-> Num(Head(heights))]
         IN  <<c>> \o Placements([cols EXCEPT ![c] = appendElement(@, e)], Tail(heights))

(***************************************************************************)
(* C1.  With K >= 1 columns, every element produced by a successful load   *)
(* is appended to a column such that no column is shorter at that moment   *)
(* and no column of lower index has the same height (comparisons as the    *)
(* program makes them: a NaN height is neither smaller than nor equal to   *)
(* any height); no other column changes.  Heights 100, 50, 50, 10 on 3     *)
(* empty columns go to the columns 0, 1, 2, 1 of the source (1, 2, 3, 2).  *)
(***************************************************************************)
C1_ShortestColumnStep ==
    (Len(created') = Len(created) + 1 /\ Len(columns) >= 1) =>
        \E c \in DOMAIN columns :
            /\ columns'[c].elements =
                   Append(columns[c].elements, created'[Len(created')])
            /\ \A j \in DOMAIN columns \ {c} : columns'[j] = columns[j]
            /\ \A j \in DOMAIN columns :
                   ~JsLt(columns[j].height, columns[c].height)
            /\ \A j \in 1..(c - 1) :
                   ~JsEq(columns[j].height, columns[c].height)

C1_ShortestColumn ==
    /\ [][C1_ShortestColumnStep]_vars
    /\ Placements(createColumns(3), <<100, 50, 50, 10>>) = <<1, 2, 3, 2>>

\* two columns tied at a non-zero height, the tie went to the first one
C1_Witness ==
    /\ Len(columns) = 2
    /\ Len(columns[1].elements) = 2
    /\ Len(columns[2].elements) = 1
    /\ columns[1].elements[1].height = columns[2].elements[1].height
    /\ IsFinite(columns[2].height) /\ columns[2].height.n > 0

(***************************************************************************)
(* C2.  With K >= 1 columns, in every state the number of items whose      *)
(* load succeeded equals the number of elements held by the columns, the   *)
(* columns hold exactly those items, once each; failed and invalid items   *)
(* are in no column and no item's image is requested twice.  When every    *)
(* load succeeded the columns hold items.length elements.                  *)
(***************************************************************************)
C2_LoadedEqualsPlaced ==
    Len(columns) >= 1 =>
        /\ Cardinality(loaded) = TotalElements(columns)
        /\ Placed = loaded
        /\ Placed \cap (failed \cup InvalidItems) = {}
        /\ \A k, l \in DOMAIN imageRequests :
               imageRequests[k] = imageRequests[l] => k = l
        /\ (pc = "resolved" /\ loaded = DOMAIN items) =>
               TotalElements(columns) = Len(items)

\* a finished build with a placed, a failed and an invalid item
C2_Witness ==
    /\ pc = "resolved"
    /\ Len(columns) >= 1
    /\ loaded # {} /\ failed # {} /\ InvalidItems # {}
    /\ TotalElements(columns) = Cardinality(loaded)

(***************************************************************************)
(* C3.  Every column's accumulated height is the sum of the heights of     *)
(* the elements appended to it, a column's elements are only ever          *)
(* appended to, and when the batch has completed (K >= 1) the sum of the   *)
(* columns' heights is the sum of the heights of the elements of the       *)
(* successfully loaded items.                                              *)
(***************************************************************************)
C3_HeightIsSum ==
    /\ \A c \in DOMAIN columns :
           columns[c].height = SumHeights(columns[c].elements)
    /\ {e.item : e \in Range(created)} = loaded
    /\ (pc = "resolved" /\ Len(columns) >= 1) =>
           SumColumnHeights(columns) = SumHeights(created)

C3_AppendOnlyStep ==
    \A c \in DOMAIN columns :
        /\ c \in DOMAIN columns'
        /\ IsPrefix(columns[c].elements, columns'[c].elements)

C3_ColumnHeights == []C3_HeightIsSum /\ [][C3_AppendOnlyStep]_vars

\* a finished build whose columns hold elements of non-zero height, next
\* to an item that failed to load
C3_Witness ==
    /\ pc = "resolved"
    /\ Len(columns) >= 2
    /\ failed # {}
    /\ \A c \in 1..2 : /\ columns[c].elements # <<>>
                       /\ IsFinite(columns[c].height)
                       /\ columns[c].height.n > 0

(***************************************************************************)
(* C4.  An item whose source neither starts with "/" nor with http:// or   *)
(* https:// never has an image load started, is in no column and, once     *)
(* attempted, ABMasonryElement.create has rejected for it with the         *)
(* "Invalid ABMasonryItem" error.                                          *)
(***************************************************************************)
C4_InvalidNeverLoads ==
    \A i \in InvalidItems :
        /\ i \notin Range(imageRequests)
        /\ i \notin inflight \cup loaded \cup failed
        /\ i \notin Placed
        /\ i \notin {e.item : e \in Range(created)}
        /\ i \in attempted =>
               \E k \in DOMAIN warnings :
                   /\ warnings[k].item = i
                   /\ warnings[k].error.text =
                          "Invalid ABMasonryItem: \"img\" must be a relative or absolute URL"

\* "invalid.jpg" was attempted and skipped and a later item was placed
C4_Witness ==
    \E i \in InvalidItems :
        /\ items[i].img = UrlInvalid
        /\ i \in attempted
        /\ \E j \in Placed : j > i

(***************************************************************************)
(* C5.  Item failures never abort the batch: a task in which items only    *)
(* fail leaves every column as it was (empty, in the task that creates     *)
(* the columns), ABMasonry.create rejects only                             *)
(* before any item was attempted (container resolution), and when it has   *)
(* resolved every item has been attempted and, with K >= 1, every item     *)
(* that loaded is placed.                                                  *)
(***************************************************************************)
C5_FailureStep ==
    (Len(warnings') > Len(warnings) /\ loaded' = loaded) =>
        IF pc = "idle"
        THEN columns' = [c \in 1..options'.columns |->
                            [elements |-> <<>>, height |-> Num(0)]]
        ELSE columns' = columns

C5_NoAbortInv ==
    /\ pc = "rejected" => (attempted = {} /\ createError # NoError)
    /\ pc = "resolved" => attempted = DOMAIN items
    /\ (pc = "resolved" /\ Len(columns) >= 1) =>
           /\ Placed = loaded
           /\ failed \cup InvalidItems = Skipped

C5_FailuresDoNotAbort == []C5_NoAbortInv /\ [][C5_FailureStep]_vars

\* an invalid item, a failed load, and a later item placed, create resolved
C5_Witness ==
    /\ pc = "resolved"
    /\ \E i \in InvalidItems, j \in failed, l \in Placed : i < l /\ j < l

(***************************************************************************)
(* C6.  ABMasonry.create has resolved only if the columns exist and every  *)
(* item has been placed or skipped and no load is pending; and, every      *)
(* pending load eventually signalling success or failure, a create that    *)
(* is waiting for a load eventually resolves.                              *)
(***************************************************************************)
C6_ResolvedInv ==
    pc = "resolved" =>
        /\ Len(columns) = options.columns
        /\ Placed \cup Skipped = DOMAIN items
        /\ inflight = {}

C6_ResolvesAfterAllAttempted ==
    /\ []C6_ResolvedInv
    /\ (pc = "awaiting") ~> (pc = "resolved")

\* create resolved after waiting for the loads of several items
C6_Witness ==
    /\ pc = "resolved"
    /\ Len(items) >= 2
    /\ Cardinality(loaded \cup failed) >= 2

C8_LoadFailure ==
    \A i \in failed :
        /\ \E k \in DOMAIN warnings :
               /\ warnings[k].item = i
               /\ warnings[k].error.text = "Image failed to load: "
               /\ warnings[k].error.arg = items[i].img
        /\ i \notin {e.item : e \in Range(created)}
        /\ i \notin Placed

\* a load failed while another item was loaded
C8_Witness == failed # {} /\ loaded # {}

(***************************************************************************)
(* C9.  A string selector that matches no element makes ABMasonry.create   *)
(* reject with 'Container "<selector>" not found'; with a matching         *)
(* selector or an HTMLElement create never rejects and, its loads          *)
(* settling, resolves.                                                     *)
(***************************************************************************)
C9_ContainerInv ==
    pc # "idle" =>
        IF selector.kind = "string" /\ selector.value \notin {"#gallery"}
        THEN /\ pc = "rejected"
             /\ createError = <<"Container \"", selector.value, "\" not found">>
        ELSE /\ pc \in {"awaiting", "resolved"}
             /\ createError = <<>>

C9_ContainerResolution ==
    /\ []C9_ContainerInv
    /\ (pc = "awaiting") ~> (pc = "resolved" /\ createError = <<>>)

\* create rejected for the selector "#nonexistent"
C9_Witness ==
    /\ pc = "rejected"
    /\ selector = [kind |-> "string", value |-> "#nonexistent"]

(***************************************************************************)
(* C10.  Once ABMasonry.create has resolved the columns are mounted in     *)
(* the container, without a call of render().                              *)
(***************************************************************************)
C10_RenderedOnResolve == pc = "resolved" => mounted

\* the overlay is Hidden and its modal holds nothing
HiddenAndEmpty(ov) == ov = [visible |-> FALSE, modal |-> <<>>]

\* the nodes show(item) builds for one item
ContentOf(item) == updateModal(<<>>, item)

\* the anchors of the captions in the modal
Anchors(m) == {m[k].anchor[1] : k \in {j \in DOMAIN m : m[j].anchor # <<>>}}

(***************************************************************************)
(* C11.  hide() always leaves the overlay Hidden with an empty modal:      *)
(* after a call of hide the overlay is Hidden and empty, from every        *)
(* reachable overlay hide gives Hidden and empty, show followed by hide    *)
(* gives Hidden and empty, and a second hide changes nothing.              *)
(***************************************************************************)
C11_HideLeavesHiddenEmpty ==
    /\ (lastCall.op = "hide" /\ lastCall.via = "call") => HiddenAndEmpty(overlay)
    /\ HiddenAndEmpty(hide(overlay))
    /\ hide(hide(overlay)) = hide(overlay)
    /\ \A item \in OverlayItems : HiddenAndEmpty(hide(show(overlay, item)))

C11_Witness ==
    /\ lastCall.op = "hide"
    /\ lastCall.via = "call"
    /\ HiddenAndEmpty(overlay)
    /\ \E item \in OverlayItems : show(overlay, item).modal # <<>>

(***************************************************************************)
(* C12.  After show(item), from any prior state, the modal holds the       *)
(* content of that one item only: one image and at most one caption.       *)
(***************************************************************************)
C12_ShowHoldsOneItem ==
    lastCall.op = "show" =>
        /\ modal = ContentOf(lastCall.item[1])
        /\ Shown(modal) = 1
        /\ Len(modal) <= 2

(***************************************************************************)
(* C13.  In every state reached by shows, hides and clicks, the overlay    *)
(* is Hidden exactly when the modal content is empty.                      *)
(***************************************************************************)
C13_HiddenIffEmpty == (~overlayVisible) <=> (modal = <<>>)

C13_Witness ==
    /\ overlayVisible
    /\ Shown(modal) = MaxShows

(***************************************************************************)
(* C14.  The last call wins: once show or hide has been called, the        *)
(* overlay is Visible exactly when the last call was show.                 *)
(***************************************************************************)
C14_LastCallWins ==
    lastCall.op # "none" => (overlayVisible <=> lastCall.op = "show")

C14_Witness ==
    /\ lastCall.op = "show"
    /\ Shown(modal) = MaxShows
    /\ overlayVisible

C16_NoScriptHref ==
    \A a \in Anchors(modal) :
        ~startsWith(a.href, <<"j", "a", "v", "a", "s", "c", "r", "i", "p", "t", ":">>)

(***************************************************************************)
(* C17.  Every created element carries exactly one click listener, and a   *)
(* click on a placed item runs show once for that item: the overlay is     *)
(* Visible, the content of that item is appended once to the modal, and    *)
(* from the Hidden overlay the modal holds exactly that item's content.    *)
(***************************************************************************)
C17_ClickStep ==
    (lastCall'.via = "item" /\ modal' # modal) =>
        LET item == items[created[lastCall'.element].item] IN
        /\ overlayVisible'
        /\ modal' = modal \o ContentOf(item)
        /\ modal = <<>> => modal' = ContentOf(item)

C17_OneListener ==
    \A k \in DOMAIN created : created[k].clickListeners = <<created[k].item>>

C17_SingleListener == [][C17_ClickStep]_vars /\ []C17_OneListener

C17_Witness ==
    /\ lastCall.via = "item"
    /\ lastCall.element = 2
    /\ overlayVisible
    /\ modal = ContentOf(items[2])

(***************************************************************************)
(* C18.  A click anywhere on the overlay surface (the root, the modal, a   *)
(* child of the modal) hides the overlay and empties the modal.            *)
(***************************************************************************)
C18_ClickHides ==
    lastCall.via \in ClickTargets => HiddenAndEmpty(overlay)

C18_ClickStep ==
    (lastCall'.via \in ClickTargets /\ lastCall' # lastCall) =>
        HiddenAndEmpty([visible |-> overlayVisible', modal |-> modal'])

C18_OverlayClickHides == []C18_ClickHides /\ [][C18_ClickStep]_vars

C18_Witness ==
    /\ lastCall.via = "child"
    /\ HiddenAndEmpty(overlay)

\* the listener sets attached to column c
ClosuresOf(cl, c) == {k \in DOMAIN cl : cl[k].column = c}

\* column c is Dragging: a listener set attached to it has the pointer down
Dragging(c) == \E k \in ClosuresOf(closures, c) : closures[k].isDown

(***************************************************************************)
(* C19.  While a column is Dragging, every pointer-move sets its scroll    *)
(* offset to the offset recorded at pointer-down minus the distance the    *)
(* pointer has travelled since: recordedScrollOffset - (currentPointerX -  *)
(* startPointerX).  Offset 100, pointer-down at 200, move to 180 gives     *)
(* 120.                                                                    *)
(***************************************************************************)
C19_MoveStep ==
    \A x \in PageXs :
        MouseMove(x) =>
            \A k \in DOMAIN closures :
                closures[k].isDown =>
                    scrollLeft'[closures[k].column] =
                        closures[k].scrollStart - (x - closures[k].startX)

C19_Example ==
    LET down == onMouseDown(attachDragScroll(1, 1), 200, 100)
    IN  onMouseMove(down, 180, 100) = 120

C19_DragFollowsPointer == [][C19_MoveStep]_vars /\ []C19_Example

C19_Witness ==
    \E k \in DOMAIN closures :
        /\ closures[k].isDown
        /\ closures[k].startX = 200
        /\ closures[k].scrollStart = 100
        /\ scrollLeft[closures[k].column] = 200

(***************************************************************************)
(* C20.  On a mobile width, each mounted column has its own drag state:    *)
(* a pointer-down on a column makes that column, and no other, Dragging    *)
(* and marks it 'grabbing'; a pointer-up anywhere in the document makes    *)
(* every column Idle and removes 'grabbing'; a pointer-move leaves the     *)
(* scroll offset of every Idle column unchanged.                           *)
(***************************************************************************)
C20_DownStep ==
    \A c \in DOMAIN columns, x \in PageXs :
        (MouseDown(c, x) /\ innerWidth < MobileBreakpoint) =>
            /\ ClosuresOf(closures, c) # {}
            /\ \A k \in ClosuresOf(closures', c) : closures'[k].isDown
            /\ \A k \in DOMAIN closures :
                   closures[k].column # c => closures'[k] = closures[k]
            /\ "grabbing" \in classList'[c]
            /\ \A d \in DOMAIN classList : d # c => classList'[d] = classList[d]

C20_UpStep ==
    (MouseUp /\ innerWidth < MobileBreakpoint) =>
        /\ \A k \in DOMAIN closures' : ~closures'[k].isDown
        /\ \A c \in DOMAIN classList' : "grabbing" \notin classList'[c]

C20_IdleMoveStep ==
    \A x \in PageXs :
        MouseMove(x) =>
            \A c \in DOMAIN scrollLeft :
                ~Dragging(c) => scrollLeft'[c] = scrollLeft[c]

C20_DragStateMachine ==
    /\ [][C20_DownStep]_vars
    /\ [][C20_UpStep]_vars
    /\ [][C20_IdleMoveStep]_vars

C20_Witness ==
    /\ Len(columns) = 2
    /\ innerWidth < MobileBreakpoint
    /\ Dragging(1)
    /\ "grabbing" \in classList[1]
    /\ ClosuresOf(closures, 2) # {}
    /\ ~Dragging(2)
    /\ "grabbing" \notin classList[2]

\* column c is Dragging in the listener sets cl
DraggingIn(cl, c) == \E k \in ClosuresOf(cl, c) : cl[k].isDown

(***************************************************************************)
(* C21.  A column in the Dragging state returns to Idle when the pointer   *)
(* leaves the column, without a pointer-up.                                *)
(***************************************************************************)
C21_LeaveStep ==
    \A c \in DOMAIN columns : MouseLeave(c) => ~DraggingIn(closures', c)

C21_LeaveEndsDrag == [][C21_LeaveStep]_vars

(***************************************************************************)
(* C21, as the program behaves: the pointer leaving a column changes       *)
(* neither the drag state, nor the scroll offset, nor the markers of any   *)
(* column; a Dragging column stays Dragging until a pointer-up, and a      *)
(* pointer-move after the leave still scrolls it.                          *)
(***************************************************************************)
C21_LeaveKeepsStep ==
    \A c \in DOMAIN columns :
        MouseLeave(c) =>
            /\ closures' = closures
            /\ scrollLeft' = scrollLeft
            /\ classList' = classList

C21_UpEndsStep ==
    \A c \in DOMAIN columns :
        (DraggingIn(closures, c) /\ ~DraggingIn(closures', c)) =>
            (MouseUp \/ Resize)

C21_MoveAfterLeaveStep ==
    \A x \in PageXs :
        (MouseMove(x) /\ pointerOver = 0) =>
            \A k \in DOMAIN closures :
                closures[k].isDown =>
                    scrollLeft'[closures[k].column] =
                        closures[k].scrollStart - (x - closures[k].startX)

C21_LeaveKeepsDragging ==
    /\ [][C21_LeaveKeepsStep]_vars
    /\ [][C21_UpEndsStep]_vars
    /\ [][C21_MoveAfterLeaveStep]_vars

C21_Witness ==
    \E k \in DOMAIN closures :
        /\ pointerOver = 0
        /\ closures[k].isDown
        /\ "grabbing" \in classList[closures[k].column]
        /\ scrollLeft[closures[k].column] # closures[k].scrollStart

(***************************************************************************)
(* C22.  Once a renderer has rendered, and after any sequence of resize    *)
(* events, every mounted column has exactly one set of drag-scroll         *)
(* listeners of that renderer if the viewport width is below 768 and none  *)
(* if it is 768 or more.                                                   *)
(***************************************************************************)
C22_OneListenerSet ==
    \A r \in resizeListeners : \A c \in DOMAIN columns :
        Cardinality({k \in ClosuresOf(closures, c) : closures[k].renderer = r}) =
            IF innerWidth < MobileBreakpoint THEN 1 ELSE 0

C22_NoStrayListeners ==
    \A k \in DOMAIN closures :
        /\ closures[k].renderer \in resizeListeners
        /\ closures[k].column \in DOMAIN columns

C22_AttachedOnce == C22_OneListenerSet /\ C22_NoStrayListeners

\* a column still marked by a drag whose listener set was replaced by a
\* resize during the drag: it has one listener set, the new one
C22_Witness ==
    /\ innerWidth < MobileBreakpoint
    /\ Len(columns) = 2
    /\ Len(closures) = 2
    /\ "grabbing" \in classList[1]
    /\ ~Dragging(1)
    /\ pointerOver = 1

(***************************************************************************)
(* C23.  On a column with drag-scroll attached, every scroll event,        *)
(* whatever the drag state, sets 'scroll-start' exactly when the scroll    *)
(* offset is at most 1 and 'scroll-end' exactly when offset + visible      *)
(* width >= total width - 1, and touches no other marker.  Visible 100,    *)
(* total 300: offset 0 gives start only, 100 neither, 200 end only.        *)
(***************************************************************************)
C23_ScrollStep ==
    \A c \in DOMAIN columns :
        (ScrollEvent(c) /\ ClosuresOf(closures, c) # {}) =>
            /\ ("scroll-start" \in classList'[c]) <=> (scrollLeft[c] <= 1)
            /\ ("scroll-end" \in classList'[c]) <=>
                   (scrollLeft[c] + OffsetWidth >= ScrollWidth - 1)
            /\ ("grabbing" \in classList'[c]) <=> ("grabbing" \in classList[c])

C23_Example ==
    /\ onScroll({}, 0, 100, 300) = {"scroll-start"}
    /\ onScroll({"scroll-start"}, 100, 100, 300) = {}
    /\ onScroll({}, 200, 100, 300) = {"scroll-end"}
    /\ onScroll({"grabbing"}, 1, 100, 300) = {"grabbing", "scroll-start"}
    /\ onScroll({"scroll-start"}, 2, 100, 300) = {}
    /\ onScroll({}, 198, 100, 300) = {}
    /\ onScroll({}, 199, 100, 300) = {"scroll-end"}

C23_ScrollMarkers == [][C23_ScrollStep]_vars /\ []C23_Example

C23_Witness ==
    \E c \in DOMAIN columns :
        /\ Dragging(c)
        /\ scrollLeft[c] = 200
        /\ classList[c] = {"grabbing", "scroll-end"}

\* both boundary markers are set
BothMarkers(classes) == {"scroll-start", "scroll-end"} \subseteq classes

(***************************************************************************)
(* C24.  The at-start and at-end markers of a column are both set after a  *)
(* scroll event only if the content fits entirely within the viewport:     *)
(* total scrollable width <= visible width.                                *)
(***************************************************************************)
C24_BothOnlyIfFits ==
    (evaluated.fn = "onScroll" /\ BothMarkers(evaluated.result)) =>
        evaluated.args[4] <= evaluated.args[3]

(***************************************************************************)
(* C24, as the program behaves: both markers are set after a scroll event  *)
(* only if the content overflows the viewport by at most 2 pixels (total   *)
(* width <= visible width + 2), the two comparisons having a tolerance of  *)
(* one pixel each; with an overflow of 0, 1 or 2 pixels some offset of the *)
(* scrollable range sets both.                                             *)
(***************************************************************************)
C24_BothOnlyIfNearlyFits ==
    evaluated.fn = "onScroll" =>
        LET sl == evaluated.args[2]
            offsetWidth == evaluated.args[3]
            scrollWidth == evaluated.args[4]
        IN  /\ BothMarkers(evaluated.result) => scrollWidth <= offsetWidth + 2
            /\ scrollWidth <= offsetWidth + 2 =>
                   \E off \in 0..(scrollWidth - offsetWidth) :
                       BothMarkers(onScroll({}, off, offsetWidth, scrollWidth))

C24_Witness ==
    /\ evaluated.fn = "onScroll"
    /\ BothMarkers(evaluated.result)
    /\ evaluated.args[4] = evaluated.args[3] + 2

(***************************************************************************)
(* C25.  For natural width w > 0, natural height h > 0 and target t,       *)
(* calculateProportionalSize returns the integer nearest to t * w / h for  *)
(* axis 'w' and to t * h / w for axis 'h', a half rounding up, so that the *)
(* result is within half a pixel of the exact proportional value;          *)
(* (100, 50, 200, 'w') = 400 and (200, 100, 300, 'h') = 150.               *)
(***************************************************************************)
C25_RoundedProportion ==
    (/\ evaluated.fn = "calculateProportionalSize"
     /\ evaluated.args[1] > 0
     /\ evaluated.args[2] > 0) =>
        LET w == evaluated.args[1]
            h == evaluated.args[2]
            t == evaluated.args[3]
            \* the exact proportional value is N / D
            N == IF evaluated.args[4] = "w" THEN t.n * w ELSE t.n * h
            D == IF evaluated.args[4] = "w" THEN t.d * h ELSE t.d * w
            r == evaluated.result
        IN  /\ r.k = "fin"
            /\ r.d = 1
            /\ 2 * r.n * D <= 2 * N + D
            /\ 2 * N + D < 2 * (r.n + 1) * D

C25_Example ==
    /\ calculateProportionalSize(100, 50, Num(200), "w") = Num(400)
    /\ calculateProportionalSize(200, 100, Num(300), "h") = Num(150)

C26_ZeroForZeroDimension ==
    (/\ evaluated.fn = "calculateProportionalSize"
     /\ (evaluated.args[1] = 0 \/ evaluated.args[2] = 0)) =>
        evaluated.result = Num(0)

(***************************************************************************)
(* C28.  The column width handed to the loader is clientWidth / columns    *)
(* when the client width of the container is > 0 and 1024 / columns when   *)
(* it is 0; 512 for 2 columns in a container of width 0.                   *)
(***************************************************************************)
C28_WidthOrFallback ==
    evaluated.fn = "columnWidth" =>
        LET cw == evaluated.args[1]
            cols == evaluated.args[2]
        IN  /\ cw > 0 => JsEq(evaluated.result, Rat(cw, cols))
            /\ cw = 0 => JsEq(evaluated.result, Rat(1024, cols))

C28_Example == JsEq(columnWidth(0, 2), Num(512))

C28_ColumnWidth == C28_WidthOrFallback /\ C28_Example

C28_Witness ==
    /\ evaluated.fn = "columnWidth"
    /\ evaluated.args = <<0, 2>>
    /\ JsEq(evaluated.result, Num(512))

\* the optional string is a non-empty text
HasText(x) == x # <<>> /\ x[1] # ""

(***************************************************************************)
(* C30.  The container built for an item holds a caption element whose     *)
(* text is the title of the item if it has one, otherwise its caption;     *)
(* the caption element is left out only if the item has neither.           *)
(***************************************************************************)
C30_CaptionElement ==
    evaluated.fn = "createContainer" =>
        LET data == evaluated.args[1]
            element == evaluated.result.caption
        IN  /\ HasText(data.title) => element = data.title
            /\ (~HasText(data.title) /\ HasText(data.caption)) => element = data.caption
            /\ element = <<>> => (~HasText(data.title) /\ ~HasText(data.caption))

(***************************************************************************)
(* C27.  The height of an element is computed when its image load          *)
(* succeeds, as the proportional size of the natural dimensions at the     *)
(* column width, axis 'h' (a 400x300 image at column width 300 has height  *)
(* 225), and never changes afterwards: no later event (resize, render,     *)
(* show, hide, drag, scroll) changes the height of an element or the       *)
(* accumulated height of a column.                                         *)
(***************************************************************************)
C27_LoadStep ==
    \A i \in inflight, size \in NaturalSizes :
        (onload(i, size) /\ size[1] > 0) =>
            LET width == IF clientWidth > 0 THEN Rat(clientWidth, options.columns)
                         ELSE Rat(1024, options.columns)
                N == size[2] * width.n
                D == size[1] * width.d
                r == created'[Len(created')].height
            IN  /\ Len(created') = Len(created) + 1
                /\ r.k = "fin"
                /\ r.d = 1
                /\ 2 * r.n * D <= 2 * N + D
                /\ 2 * N + D < 2 * (r.n + 1) * D

C27_FrameStep ==
    /\ \A k \in DOMAIN created :
           /\ k \in DOMAIN created'
           /\ created'[k].height = created[k].height
    /\ (pc # "idle" /\ Len(created') = Len(created)) =>
           /\ DOMAIN columns' = DOMAIN columns
           /\ \A c \in DOMAIN columns :
                  /\ columns'[c].height = columns[c].height
                  /\ columns'[c].elements = columns[c].elements

C27_Example == calculateProportionalSize(400, 300, Num(300), "h") = Num(225)

C27_HeightFixed ==
    /\ [][C27_LoadStep]_vars
    /\ [][C27_FrameStep]_vars
    /\ []C27_Example

\* an element of height 150 (2x1 at width 300) after a render, a resize, a
\* show and a hide by clicks, a drag and a scroll
C27_Witness ==
    /\ Len(created) >= 1
    /\ created[1].height = Num(150)
    /\ columns[1].height = SumHeights(columns[1].elements)
    /\ renders >= 1
    /\ innerWidth < MobileBreakpoint
    /\ lastCall.via \in ClickTargets
    /\ "grabbing" \in classList[1]
    /\ "scroll-end" \in classList[1]
    /\ scrollLeft[1] = 100

(***************************************************************************)
(* C29.  After create and render, the container holds exactly `columns`    *)
(* column elements (the option value, 3 when the option is absent), each   *)
(* column once, and a further render() does not change that.               *)
(***************************************************************************)
C29_ColumnsInContainer ==
    renders >= 1 =>
        /\ Len(containerChildren) = options.columns
        /\ Len(containerChildren) = Len(columns)
        /\ \A c \in DOMAIN columns : \E j \in DOMAIN containerChildren :
               containerChildren[j] = c

C29_RerenderStep ==
    (renders >= 1 /\ renders' = renders + 1) =>
        Len(containerChildren') = Len(containerChildren)

C29_ColumnCount == []C29_ColumnsInContainer /\ [][C29_RerenderStep]_vars

C29_Witness ==
    /\ renders = 2
    /\ Len(containerChildren) = DefaultColumns

(***************************************************************************)
(* C31.  After render(), the --ab-gap property of the container equals the *)
(* gap option as a CSS length: '16px' for the default, '12px' for a        *)
(* supplied '12px'.                                                        *)
(***************************************************************************)
C31_GapProperty ==
    (renders >= 1 /\ options.gap \in {DefaultGap, Gap12px}) =>
        style = <<options.gap.chars>>

(***************************************************************************)
(* C32.  The item descriptors are immutable: ABMasonryElement.create, on   *)
(* success and on failure, and ABMasonryOverlay.show leave img, title,     *)
(* caption and link of every descriptor as the caller passed them.         *)
(***************************************************************************)
C32_CreateStep ==
    (pc = "idle" /\ pc' # "idle" /\ pc' # "rejected") => items' \in OverlayItemLists

C32_LaterStep == pc # "idle" => items' = items

C32_ItemsImmutable == [][C32_CreateStep /\ C32_LaterStep]_vars

\* of two descriptors the first failed to load, the second loaded and was
\* shown by a click, and both are as passed
C32_Witness ==
    /\ items = <<LinkedItem, TitledItem>>
    /\ failed = {1}
    /\ loaded = {2}
    /\ lastCall.op = "show"
    /\ lastCall.item = <<TitledItem>>
    /\ overlayVisible

(***************************************************************************)
(* C33.  The constructor-based ABMasonry starts every load at              *)
(* construction; in whatever order the loads complete, a loaded item is    *)
(* appended to the column of minimal tracked height at its completion      *)
(* (lowest index on ties) and that tracked height grows by the height of   *)
(* the item within the same step; errored items are dropped, so the        *)
(* columns hold exactly the loaded items.                                  *)
(***************************************************************************)
LegacyPlaced == UNION {Range(legacy.columns[c]) : c \in DOMAIN legacy.columns}

C33_StartStep ==
    (~legacy.constructed /\ legacy'.constructed) =>
        legacy'.pending = DOMAIN legacy'.items

C33_CompletionStep ==
    \A i \in legacy.pending \ (legacy'.pending \cup legacy'.dropped) :
        \E c \in DOMAIN legacy.columns :
            /\ \A d \in DOMAIN legacy.columnHeights :
                   /\ legacy.columnHeights[c] <= legacy.columnHeights[d]
                   /\ d < c => legacy.columnHeights[c] < legacy.columnHeights[d]
            /\ legacy'.columns[c] = Append(legacy.columns[c], i)
            /\ legacy'.columnHeights[c] = legacy.columnHeights[c] + legacy'.height[i]
            /\ \A d \in DOMAIN legacy.columns \ {c} :
                   /\ legacy'.columns[d] = legacy.columns[d]
                   /\ legacy'.columnHeights[d] = legacy.columnHeights[d]

C33_ExactlyLoaded ==
    legacy.constructed =>
        /\ LegacyPlaced = DOMAIN legacy.items \ (legacy.pending \cup legacy.dropped)
        /\ \A c \in DOMAIN legacy.columns :
               /\ Cardinality(Range(legacy.columns[c])) = Len(legacy.columns[c])
               /\ \A d \in DOMAIN legacy.columns :
                      c # d => Range(legacy.columns[c]) \cap Range(legacy.columns[d]) = {}

C33_LegacyCompletionOrder ==
    /\ [][C33_StartStep /\ C33_CompletionStep]_vars
    /\ []C33_ExactlyLoaded

\* three loads completed out of descriptor order, the second errored; the
\* last one found both columns at the same tracked height
C33_Witness ==
    /\ Len(legacy.items) = 3
    /\ legacy.dropped = {2}
    /\ legacy.pending = {}
    /\ legacy.columns = <<<<3>>, <<1>>>>
    /\ legacy.columnHeights = <<2, 2>>

(***************************************************************************)
(* C34.  In distributeItems at most one image load is in flight; the load  *)
(* of an item is initiated only after every earlier item was placed or     *)
(* skipped; items are placed in descriptor order, so within every column   *)
(* the elements appear in descriptor order.                                *)
(***************************************************************************)
C34_OneInFlight == Cardinality(inflight) <= 1

C34_InitiationStep ==
    \A k \in DOMAIN imageRequests' \ DOMAIN imageRequests :
        \A i \in 1..(imageRequests'[k] - 1) : i \in Placed' \cup Skipped'

C34_PlacementStep ==
    \A i \in Placed' \ Placed : \A j \in Placed : j < i

C34_ColumnOrder ==
    \A c \in DOMAIN columns :
        \A k, l \in DOMAIN columns[c].elements :
            k < l => columns[c].elements[k].item < columns[c].elements[l].item

C34_SequentialLoads ==
    /\ []C34_OneInFlight
    /\ [][C34_InitiationStep /\ C34_PlacementStep]_vars
    /\ []C34_ColumnOrder

\* a column holds two elements in descriptor order and the load of the
\* last item is pending
C34_Witness ==
    /\ \E c \in DOMAIN columns : Len(columns[c].elements) = 2
    /\ inflight = {Len(items)}
    /\ Len(items) = MaxItems

(***************************************************************************)
(* C35.  Greedy balance bound: with K >= 1 columns and elements of         *)
(* non-negative heights, after every placement the largest and the         *)
(* smallest accumulated column height differ by at most the largest        *)
(* height of an element placed so far.                                     *)
(***************************************************************************)
PlacedElements == UNION {Range(columns[c].elements) : c \in DOMAIN columns}

NonNegativeHeights ==
    \A e \in PlacedElements : IsFinite(e.height) /\ e.height.n >= 0

C35_BalanceBound ==
    (Len(columns) >= 1 /\ NonNegativeHeights) =>
        IF PlacedElements = {}
        THEN \A c \in DOMAIN columns : columns[c].height = Num(0)
        ELSE \E e \in PlacedElements :
                 /\ \A f \in PlacedElements : ~JsLt(e.height, f.height)
                 /\ \A c, d \in DOMAIN columns :
                        ~JsLt(JsAdd(columns[d].height, e.height), columns[c].height)

\* heights 75, 75, 150 on two columns: 225 against 75, the bound is met
\* with equality
C35_Witness ==
    /\ Len(columns) = 2
    /\ NonNegativeHeights
    /\ columns[1].height = Num(225)
    /\ columns[2].height = Num(75)
    /\ Len(columns[1].elements) = 2

(***************************************************************************)
(* C36.  In every reachable state a column carries the 'grabbing' marker   *)
(* only while it is Dragging, also when the viewport is resized between    *)
(* the pointer-down and the pointer-up.                                    *)
(***************************************************************************)
C36_GrabbingOnlyWhileDragging ==
    \A c \in DOMAIN classList : "grabbing" \in classList[c] => Dragging(c)

(***************************************************************************)
(* C37.  Calling render() more than once does not double-attach: after     *)
(* any number of render() calls and resizes, the gallery has exactly one   *)
(* resize listener on the window and, at mobile width, each column has     *)
(* exactly one set of drag-scroll listeners.                               *)
(***************************************************************************)
C37_RenderAttachesOnce ==
    renders >= 1 =>
        /\ Cardinality(resizeListeners) = 1
        /\ innerWidth < MobileBreakpoint =>
               \A c \in DOMAIN columns :
                   Cardinality(ClosuresOf(closures, c)) = 1

(***************************************************************************)
(* C38.  A failed construction has no side effects: when create rejects    *)
(* because the container is not found, no overlay element was appended to  *)
(* the document and no image load was initiated.                           *)
(***************************************************************************)
C38_RejectedNoEffects ==
    pc = "rejected" =>
        /\ ~overlayAppended
        /\ imageRequests = <<>>
        /\ inflight = {}
        /\ attempted = {}
        /\ created = <<>>
        /\ columns = <<>>

C38_Witness ==
    /\ pc = "rejected"
    /\ selector = [kind |-> "string", value |-> "#nonexistent"]
    /\ createError = ContainerNotFound("#nonexistent")

(***************************************************************************)
(* C39.  With the columns option 0, create still resolves without          *)
(* rejecting and places no item: every item is skipped at the item         *)
(* boundary, those whose image load succeeded included.                    *)
(***************************************************************************)
C39_ZeroColumnsInv ==
    (options.columns = 0 /\ pc # "idle") =>
        /\ pc # "rejected"
        /\ columns = <<>>
        /\ Placed = {}
        /\ loaded \cup failed \subseteq Skipped
        /\ pc = "resolved" => Skipped = DOMAIN items

C39_ZeroColumns ==
    /\ []C39_ZeroColumnsInv
    /\ (options.columns = 0 /\ pc = "awaiting") ~> (pc = "resolved")

\* resolved with no column: loaded, failed and invalid items all skipped
C39_Witness ==
    /\ options.columns = 0
    /\ pc = "resolved"
    /\ Len(items) = 3
    /\ loaded # {}
    /\ failed # {}
    /\ Cardinality(loaded \cup failed) < 3
    /\ Len(warnings) = 3

====
